---- MODULE Spec2Model ----
(***************************************************************************)
(* Model of the portfolio valuation and indicator pipeline of              *)
(* src/backend/utils/indicators.py (calculate_portfolio_value,             *)
(* find_closest_trading_date, calculate_indicators and their helpers) and  *)
(* src/backend/utils/enhanced_indicators.py.                               *)
(*                                                                         *)
(* Dates are day numbers (day 0 is a Monday).  Money is an integer number  *)
(* of currency units; a ratio the code computes in floating point is kept  *)
(* as an exact fraction [n, d], and a value the code formats with          *)
(* f"{x:.2f}" is kept as the integer number of hundredths.                 *)
(***************************************************************************)
EXTENDS Integers, Sequences, FiniteSets, TLC

VARIABLES
    transactions,     \* the request's transaction list (symbol, quantity, buy_date, buy_price)
    start_date,       \* the request's start date (a day number or BadDate)
    end_date,         \* the request's end date (a day number or BadDate)
    market,           \* the price source: symbol -> kind of feed
    pc,               \* position in the pipeline
    portfolio_value,  \* the frame calculate_portfolio_value builds and returns
    stock_data,       \* symbol -> downloaded price series (absent when the download raised)
    txi,              \* index of the next transaction of the valuation loop
    via,              \* which return of calculate_portfolio_value ran: "return" or "except"
    indicators,       \* the indicators mapping of calculate_indicators
    raised,           \* the exception calculate_indicators propagated, or "none"
    previous,         \* the frame an earlier call with the same request returned
    args,             \* a helper function called on its own: its name and argument
    result            \* ... and what it returned

vars == <<transactions, start_date, end_date, market, pc, portfolio_value,
          stock_data, txi, via, indicators, raised, previous, args, result>>

(***************************************************************************)
(* Bounds of the model.                                                    *)
(***************************************************************************)
MaxDay == 8
MaxTx == 2
LongDays == 60

(***************************************************************************)
(* Values standing for Python's failures and None.                         *)
(***************************************************************************)
\* a date string that pd.date_range / datetime.fromisoformat cannot parse
BadDate == -1
\* find_closest_trading_date's None
None == -2

Symbols == {"A", "B"}

Parseable(d) == d # BadDate

(***************************************************************************)
(* Small helpers over sequences and sets.                                  *)
(***************************************************************************)
RECURSIVE SumSeq(_)
SumSeq(s) == IF s = <<>> THEN 0 ELSE Head(s) + SumSeq(Tail(s))

RECURSIVE SumOver(_, _)
SumOver(f, S) ==
    IF S = {} THEN 0
    ELSE LET x == CHOOSE y \in S : TRUE IN f[x] + SumOver(f, S \ {x})

SeqsUpTo(S, n) == UNION {[1..k -> S] : k \in 0..n}

(***************************************************************************)
(* The price source (yfinance).  A feed kind fixes the calendar and the    *)
(* closing prices of a symbol; "fail" raises on download and "empty" has   *)
(* no rows.                                                                *)
(***************************************************************************)
IsTradingDay(kind, d) == d % 7 < 5

ClosePrice(kind, d) ==
    CASE kind = "flat" -> 100
      [] kind = "rise" -> 100 + d
      [] kind = "fall" -> 200 - 2 * d
      [] kind = "dip"  -> IF d <= 10 THEN 100 - 3 * d
                          ELSE IF d <= 20 THEN 70 + 3 * (d - 10)
                          ELSE 100
      [] OTHER -> 0

\* the rows of the feed with from <= date < to, in increasing date order
SeriesBetween(kind, from, to) ==
    IF from >= to THEN <<>>
    ELSE SelectSeq([i \in 1..(to - from) |->
                       [Date |-> from + i - 1, Close |-> ClosePrice(kind, from + i - 1)]],
                   LAMBDA r : IsTradingDay(kind, r.Date))

\* yf.download(symbol, start=start_date, end=end_date): the rows from start_date
\* up to, not including, end_date
YfDownload(kind, start, end) ==
    IF kind = "empty" THEN <<>> ELSE SeriesBetween(kind, start, end)

DownloadRaises(kind) == kind = "fail"

\* get_stock_data, data_fetcher.py lines 42-69: the download starts five days
\* before start_date; a failure gives an empty frame.  No function of
\* indicators.py calls it.
get_stock_data(kind, start_date_str, end_date_str) ==
    IF DownloadRaises(kind) THEN <<>>
    ELSE YfDownload(kind, start_date_str - 5, end_date_str)

(***************************************************************************)
(* find_closest_trading_date                                               *)
(***************************************************************************)
find_closest_trading_date_first(stock_df, date) ==
    LET available_dates == SelectSeq(stock_df, LAMBDA r : r.Date <= date)
    IN IF available_dates # <<>> THEN available_dates[1].Date ELSE None

find_closest_trading_date(stock_df, date) ==
    LET available_dates == SelectSeq(stock_df, LAMBDA r : r.Date <= date)
    IN IF available_dates # <<>>
       THEN available_dates[Len(available_dates)].Date
       ELSE None

\* stock_df.loc[closest_date, 'Close']
CloseAt(stock_df, closest_date) ==
    LET hits == SelectSeq(stock_df, LAMBDA r : r.Date = closest_date)
    IN hits[1].Close

(***************************************************************************)
(* calculate_portfolio_value                                               *)
(***************************************************************************)
SymbolsOf(txs) == {txs[i].symbol : i \in 1..Len(txs)}

\* pd.date_range(start=start_date, end=end_date): every calendar day, both ends
date_range_open(start, end) ==
    IF end <= start THEN <<>> ELSE [i \in 1..(end - start) |-> start + i - 1]

date_range(start, end) ==
    IF end < start THEN <<>> ELSE [i \in 1..(end - start + 1) |-> start + i - 1]

\* the frame of lines 32-39: one row per date, TotalValue and every symbol at 0.0
EmptyFrame(txs, start, end) ==
    LET dr == date_range(start, end)
    IN [i \in 1..Len(dr) |->
          [Date |-> dr[i], TotalValue |-> 0, value |-> [s \in SymbolsOf(txs) |-> 0]]]

\* the download loop of lines 42-51: a symbol whose download raises gets no entry
DownloadAll_abort(txs, mkt, start, end) ==
    IF \E s \in SymbolsOf(txs) : DownloadRaises(mkt[s])
    THEN [raised |-> TRUE, data |-> <<>>]
    ELSE [raised |-> FALSE,
          data |-> [s \in SymbolsOf(txs) |-> YfDownload(mkt[s], start, end)]]

DownloadAll(txs, mkt, start, end) ==
    [raised |-> FALSE,
     data |-> [s \in {t \in SymbolsOf(txs) : ~DownloadRaises(mkt[t])} |->
                  YfDownload(mkt[s], start, end)]]

\* lines 70-76: what transaction tx is worth on `date`
TxValueOn_nobuydate(tx, stock_df, date) ==
    LET closest_date == find_closest_trading_date(stock_df, date)
    IN IF closest_date # None
       THEN tx.quantity * CloseAt(stock_df, closest_date)
       ELSE 0

TxValueOn(tx, stock_df, date) ==
    IF date >= tx.buy_date
    THEN LET closest_date == find_closest_trading_date(stock_df, date)
         IN IF closest_date # None
            THEN tx.quantity * CloseAt(stock_df, closest_date)
            ELSE 0
    ELSE 0

\* lines 85-89: add `value` to the symbol's cell and to TotalValue of one row
AddToRow_nototal(row, symbol, value) ==
    [row EXCEPT !.value[symbol] = @ + value]

AddToRow(row, symbol, value) ==
    [row EXCEPT !.value[symbol] = @ + value, !.TotalValue = @ + value]

\* one iteration of the loop of lines 54-94, past the parse of buy_date
ValueTx(frame, tx, data) ==
    IF tx.symbol \notin DOMAIN data \/ data[tx.symbol] = <<>>
    THEN frame
    ELSE [i \in 1..Len(frame) |->
            AddToRow(frame[i], tx.symbol,
                     TxValueOn(tx, data[tx.symbol], frame[i].Date))]

\* lines 99-103: reset_index and strftime turn the index into date strings
DateStr(d) == [ymd |-> d]
ToDatetime(s) == s.ymd

FinishFrame(frame) ==
    [i \in 1..Len(frame) |-> [frame[i] EXCEPT !.Date = DateStr(@)]]

\* lines 109-112: the one-row frame of the except branch
FallbackFrame_norow(txs, start) == <<>>

FallbackFrame(txs, start) ==
    <<[Date |-> IF Parseable(start) THEN DateStr(start) ELSE [raw |-> "unparseable"],
       TotalValue |-> 0,
       value |-> [s \in SymbolsOf(txs) |-> 0]]>>

\* calculate_portfolio_value as one function: the composition of the steps above
RECURSIVE ValueAll(_, _, _, _)
ValueAll(frame, txs, k, data) ==
    IF k > Len(txs) THEN frame
    ELSE ValueAll(ValueTx(frame, txs[k], data), txs, k + 1, data)

calculate_portfolio_value(txs, start, end, mkt) ==
    IF ~(Parseable(start) /\ Parseable(end))
    THEN FallbackFrame(txs, start)
    ELSE LET dl == DownloadAll(txs, mkt, start, end)
         IN IF dl.raised \/ \E k \in 1..Len(txs) : ~Parseable(txs[k].buy_date)
            THEN FallbackFrame(txs, start)
            ELSE FinishFrame(ValueAll(EmptyFrame(txs, start, end), txs, 1, dl.data))

(***************************************************************************)
(* Arithmetic of calculate_indicators.  A float the code divides out is    *)
(* kept as the fraction [n, d] with d > 0; f"{x:.2f}" of 100 * n / d is    *)
(* the number of hundredths nearest to it.                                 *)
(***************************************************************************)
Frac(n, d) == [n |-> n, d |-> d]
FracLess(a, b) == a.n * b.d < b.n * a.d
FracEq(a, b) == a.n * b.d = b.n * a.d
FracPos(a) == a.n > 0
FracNeg(a) == a.n < 0

\* f"{x:.2f}" of x = n / d (d > 0), in hundredths
\* (the division is done digit by digit to stay within 32-bit integers)
Hundredths(n, d) ==
    LET whole == n \div d
        r0 == n - whole * d
        tenths == (10 * r0) \div d
        r1 == 10 * r0 - tenths * d
    IN 100 * whole + 10 * tenths + (2 * 10 * r1 + d) \div (2 * d)
\* f"{x * 100:.2f}%" of x = n / d (d > 0), in hundredths of a percent
\* (the division is done in two steps of 100 to stay within 32-bit integers)
PctHundredths(n, d) ==
    LET whole == (100 * n) \div d
        rest == 100 * n - whole * d
    IN 100 * whole + (2 * 100 * rest + d) \div (2 * d)

\* the values a report entry takes
Pct(v) == [kind |-> "pct", v |-> v]
Num(v) == [kind |-> "num", v |-> v]
Days(v) == [kind |-> "days", v |-> v]
DateVal(v) == [kind |-> "date", v |-> v]
Text(t) == [kind |-> "text", text |-> t]
\* a number the model does not evaluate (a root, a power or a logarithm), with
\* the formula that produced it
Float(formula) == [kind |-> "float", formula |-> formula]
Group(name) == [kind |-> "group", name |-> name]
\* a dict stored as one entry of the report
Entries(dict) == [kind |-> "entries", entries |-> dict]
IsMarker(v) == v.kind = "text"

\* dict operations: d[k] = v, d.update(e), and "if key not in d: d[key] = value"
Put(d, k, v) == (k :> v) @@ d
Update(d, e) == e @@ d
AddMissing(d, e) == d @@ e

TotalValues(frame) == [i \in 1..Len(frame) |-> frame[i].TotalValue]

\* lines 196-209: the returns over the index pairs whose previous value is > 0
DailyReturns_zero(values) ==
    IF Len(values) > 1
    THEN [i \in 1..(Len(values) - 1) |->
             IF values[i] > 0 THEN Frac(values[i + 1] - values[i], values[i]) ELSE Frac(0, 1)]
    ELSE <<>>

DailyReturns(values) ==
    IF Len(values) > 1
    THEN LET valid_indices ==
                 SelectSeq([i \in 1..(Len(values) - 1) |-> i], LAMBDA i : values[i] > 0)
         IN [k \in 1..Len(valid_indices) |->
                Frac(values[valid_indices[k] + 1] - values[valid_indices[k]],
                     values[valid_indices[k]])]
    ELSE <<>>

\* np.std(x) > 0: some element differs from the first
StdPositive(x) == \E i \in 1..Len(x) : ~FracEq(x[i], x[1])

\* lines 177-182
InitialInvestment(txs) ==
    LET paid == SumSeq([k \in 1..Len(txs) |-> txs[k].quantity * txs[k].buy_price])
    IN IF paid <= 0 THEN 1 ELSE paid

\* lines 185-193
FinalValue_unfloored(values) ==
    IF Len(values) > 0 THEN values[Len(values)] ELSE 0

FinalValue(values) ==
    IF Len(values) > 0
    THEN (IF values[Len(values)] < 0 THEN 0 ELSE values[Len(values)])
    ELSE 0

(***************************************************************************)
(* The loops of the code are folds of their body over the indices lo..hi.  *)
(* Each fold below splits the range in two halves and evaluates the first  *)
(* half before it enters the second, which keeps the evaluation shallow;   *)
(* the body is applied to the indices in increasing order.                 *)
(***************************************************************************)
\* calculate_max_drawdown, lines 437-463: the largest (peak - value) / peak
MaxDrawdownStep_fromfirst(values, i, st) ==
    LET peak == st.max_so_far
        drawdown == Frac(peak - values[i], peak)
    IN [max_so_far |-> peak,
        max_drawdown |-> IF peak > 0 /\ FracLess(st.max_drawdown, drawdown)
                         THEN drawdown ELSE st.max_drawdown]

MaxDrawdownStep(values, i, st) ==
    LET peak == IF values[i] > st.max_so_far THEN values[i] ELSE st.max_so_far
        drawdown == Frac(peak - values[i], peak)
    IN [max_so_far |-> peak,
        max_drawdown |-> IF peak > 0 /\ FracLess(st.max_drawdown, drawdown)
                         THEN drawdown ELSE st.max_drawdown]

RECURSIVE MaxDrawdownScan(_, _, _, _)
MaxDrawdownScan(values, lo, hi, st) ==
    IF lo > hi THEN st
    ELSE IF lo = hi THEN MaxDrawdownStep(values, lo, st)
    ELSE LET mid == (lo + hi) \div 2
             left == MaxDrawdownScan(values, lo, mid, st)
         IN IF left.max_so_far = left.max_so_far THEN MaxDrawdownScan(values, mid + 1, hi, left) ELSE left

calculate_max_drawdown(values) ==
    IF Len(values) < 2 THEN Frac(0, 1)
    ELSE MaxDrawdownScan(values, 1, Len(values),
             [max_so_far |-> values[1], max_drawdown |-> Frac(0, 1)]).max_drawdown

\* calculate_max_streak, lines 466-486
MaxStreakStep_noreset(binary_array, i, st) ==
    IF binary_array[i] = 1
    THEN [current_streak |-> st.current_streak + 1,
          max_streak |-> IF st.current_streak + 1 > st.max_streak
                         THEN st.current_streak + 1 ELSE st.max_streak]
    ELSE st

MaxStreakStep(binary_array, i, st) ==
    IF binary_array[i] = 1
    THEN [current_streak |-> st.current_streak + 1,
          max_streak |-> IF st.current_streak + 1 > st.max_streak
                         THEN st.current_streak + 1 ELSE st.max_streak]
    ELSE [current_streak |-> 0, max_streak |-> st.max_streak]

RECURSIVE MaxStreakScan(_, _, _, _)
MaxStreakScan(binary_array, lo, hi, st) ==
    IF lo > hi THEN st
    ELSE IF lo = hi THEN MaxStreakStep(binary_array, lo, st)
    ELSE LET mid == (lo + hi) \div 2
             left == MaxStreakScan(binary_array, lo, mid, st)
         IN IF left.max_streak = left.max_streak THEN MaxStreakScan(binary_array, mid + 1, hi, left) ELSE left

calculate_max_streak(binary_array) ==
    MaxStreakScan(binary_array, 1, Len(binary_array),
                  [current_streak |-> 0, max_streak |-> 0]).max_streak

Positives(x) == SelectSeq(x, FracPos)
Negatives(x) == SelectSeq(x, FracNeg)

(***************************************************************************)
(* calculate_win_loss_metrics, lines 552-598.  Report keys are the         *)
(* English names of the code's keys:                                       *)
(*   detailed_win_rate 详细胜率, avg_gain 平均收益(盈利日),                *)
(*   avg_loss 平均损失(亏损日), gain_loss_ratio 收益/损失比,               *)
(*   daily_expectancy 每日期望收益                                         *)
(***************************************************************************)
calculate_win_loss_metrics(daily_returns) ==
    LET positive_returns == Positives(daily_returns)
        negative_returns == Negatives(daily_returns)
    IN ("detailed_win_rate" :> Pct(PctHundredths(Len(positive_returns), Len(daily_returns))))
       @@ ("avg_gain" :> IF Len(positive_returns) > 0
                         THEN Float("mean(positive_returns)") ELSE Text("N/A"))
       @@ ("avg_loss" :> IF Len(negative_returns) > 0
                         THEN Float("mean(negative_returns)") ELSE Text("N/A"))
       @@ ("gain_loss_ratio" :> IF Len(negative_returns) > 0
                                THEN Float("abs(avg_gain / avg_loss)")
                                ELSE Text("N/A (no loss)"))
       @@ ("daily_expectancy" :> Float("expectancy"))

(***************************************************************************)
(* calculate_rolling_metrics, lines 601-643.  Keys, for window w:          *)
(*   rolling_w_analysis w日滚动分析, rolling_w_return w日滚动年化收益,     *)
(*   rolling_w_volatility w日滚动年化波动率,                               *)
(*   rolling_w_max_volatility w日最高历史波动率,                           *)
(*   rolling_w_min_volatility w日最低历史波动率                            *)
(***************************************************************************)
RollingKey(window, what) == "rolling_" \o ToString(window) \o "_" \o what

\* rolling_std at index k (k >= window) is > 0: the window is not constant
RollingStdPositive(x, window, k) ==
    \E i \in (k - window + 1)..k : ~FracEq(x[i], x[k])

\* rolling_std[rolling_std > 0] has a row
SomeRollingStdPositive(x, window) ==
    \E k \in window..Len(x) : RollingStdPositive(x, window, k)

calculate_rolling_metrics(daily_returns, window) ==
    IF Len(daily_returns) < window
    THEN [raised |-> FALSE,
          result |-> (RollingKey(window, "analysis") :> Text("insufficient data"))]
    ELSE IF ~SomeRollingStdPositive(daily_returns, window)
         \* line 633: idxmin() of an empty selection raises ValueError
         THEN [raised |-> TRUE, result |-> <<>>]
         ELSE [raised |-> FALSE,
               result |-> (RollingKey(window, "return") :> Float("rolling_mean * 252"))
                          @@ (RollingKey(window, "volatility") :> Float("rolling_std * sqrt(252)"))
                          @@ (RollingKey(window, "max_volatility") :> Float("max rolling_std"))
                          @@ (RollingKey(window, "min_volatility") :> Float("min rolling_std > 0"))]

(***************************************************************************)
(* calculate_drawdown_metrics, lines 646-747 (indices are 1-based here).   *)
(* Keys: drawdown_analysis 回撤分析, max_dd_start_date 最大回撤开始日期,   *)
(*   max_dd_end_date 最大回撤结束日期, max_dd_duration 最大回撤持续时间,   *)
(*   recovery_date 回撤恢复日期, recovery_time 回撤恢复时间,               *)
(*   full_dd_cycle 完整回撤周期, recovery 回撤恢复, avg_drawdown 平均回撤, *)
(*   significant_dd_count 显著回撤次数(>2%),                               *)
(*   annual_dd_frequency 年化显著回撤频率                                  *)
(***************************************************************************)
\* the body of the loop of lines 675-693
DrawdownStep(values, i, st) ==
    LET newpeak == values[i] > st.peak_value
        peak_value == IF newpeak THEN values[i] ELSE st.peak_value
        peak_idx == IF newpeak THEN i ELSE st.peak_idx
        current_drawdown == IF peak_value > 0
                            THEN Frac(peak_value - values[i], peak_value)
                            ELSE Frac(0, 1)
        deeper == FracLess(st.max_drawdown, current_drawdown)
    IN [peak_value |-> peak_value,
        peak_idx |-> peak_idx,
        max_drawdown |-> IF deeper THEN current_drawdown ELSE st.max_drawdown,
        max_drawdown_start_idx |-> IF deeper THEN peak_idx ELSE st.max_drawdown_start_idx,
        max_drawdown_end_idx |-> IF deeper THEN i ELSE st.max_drawdown_end_idx,
        significant |-> st.significant
                        + (IF FracLess(Frac(2, 100), current_drawdown) THEN 1 ELSE 0)]

RECURSIVE DrawdownScan(_, _, _, _)
DrawdownScan(values, lo, hi, st) ==
    IF lo > hi THEN st
    ELSE IF lo = hi THEN DrawdownStep(values, lo, st)
    ELSE LET mid == (lo + hi) \div 2
             left == DrawdownScan(values, lo, mid, st)
         IN IF left.peak_idx = left.peak_idx THEN DrawdownScan(values, mid + 1, hi, left) ELSE left

DrawdownState(values) ==
    DrawdownScan(values, 1, Len(values),
        [peak_value |-> values[1], peak_idx |-> 1, max_drawdown |-> Frac(0, 1),
         max_drawdown_start_idx |-> 1, max_drawdown_end_idx |-> 1, significant |-> 0])

\* lines 709-713: the first index after the trough whose value is back at the peak's
RecoveryIdx_trough(values, st) ==
    LET back == {i \in (st.max_drawdown_end_idx + 1)..Len(values) :
                    values[i] >= values[st.max_drawdown_end_idx]}
    IN IF back = {} THEN None ELSE CHOOSE i \in back : \A j \in back : i <= j

RecoveryIdx(values, st) ==
    LET back == {i \in (st.max_drawdown_end_idx + 1)..Len(values) :
                    values[i] >= values[st.max_drawdown_start_idx]}
    IN IF back = {} THEN None ELSE CHOOSE i \in back : \A j \in back : i <= j

calculate_drawdown_metrics(portfolio_values, dates) ==
    IF Len(portfolio_values) < 5
    THEN ("drawdown_analysis" :> Text("insufficient data"))
    ELSE LET st == DrawdownState(portfolio_values)
             max_dd_start_date == dates[st.max_drawdown_start_idx]
             max_dd_end_date == dates[st.max_drawdown_end_idx]
             dd_duration == max_dd_end_date - max_dd_start_date
             recovery_idx == RecoveryIdx(portfolio_values, st)
             years == Frac(dates[Len(dates)] - dates[1], 365)
         IN (IF FracPos(st.max_drawdown)
             THEN ("max_dd_start_date" :> DateVal(max_dd_start_date))
                  @@ ("max_dd_end_date" :> DateVal(max_dd_end_date))
                  @@ ("max_dd_duration" :> Days(dd_duration))
                  @@ (IF recovery_idx # None
                      THEN ("recovery_date" :> DateVal(dates[recovery_idx]))
                           @@ ("recovery_time" :> Days(dates[recovery_idx] - max_dd_end_date))
                           @@ ("full_dd_cycle" :>
                                  Days(dd_duration + dates[recovery_idx] - max_dd_end_date))
                      ELSE ("recovery" :> Text("not yet recovered to the peak")))
             ELSE <<>>)
            @@ ("avg_drawdown" :> Float("mean(drawdowns)"))
            @@ ("significant_dd_count" :> Num(st.significant))
            @@ (IF Len(dates) > 1 /\ FracPos(years)
                THEN ("annual_dd_frequency" :> Float("significant_drawdowns / years"))
                ELSE <<>>)

(***************************************************************************)
(* calculate_enhanced_indicators, enhanced_indicators.py lines 6-164.      *)
(* Keys: ROI, absolute_return 绝对收益, twr 时间加权收益率,                *)
(*   irr 资金加权收益率, daily_volatility 日波动率,                        *)
(*   annualized_volatility 年化波动率, sortino_ratio 索提诺比率,           *)
(*   treynor_ratio 特雷诺比率, var_95 风险值(VaR 95%),                     *)
(*   cvar_95 条件风险值(CVaR 95%), downside_deviation 下行偏差,            *)
(*   alpha 阿尔法, information_ratio 信息比率, stock_weights 股票权重,     *)
(*   hhi 权重集中度(HHI), gini 基尼系数, max_contributor 最大贡献,         *)
(*   turnover 换手率, expense_ratio 费用率, cash_drag 现金拖累             *)
(***************************************************************************)
\* daily_returns < risk_free_rate / 252, with risk_free_rate = 0.02
BelowDailyRiskFree(r) == r.n * 12600 < r.d

\* the symbol of the largest value (max(..., key=value))
MaxSymbol(values) ==
    CHOOSE s \in DOMAIN values : \A t \in DOMAIN values : values[t] <= values[s]

calculate_enhanced_indicators(frame, daily_returns, initial_investment, final_value, txs) ==
    LET last == frame[Len(frame)]
        symbol_values == [s \in SymbolsOf(txs) \cap DOMAIN last.value |-> last.value[s]]
        total_portfolio_value == SumOver(symbol_values, DOMAIN symbol_values)
        squares == [s \in DOMAIN symbol_values |-> symbol_values[s] * symbol_values[s]]
    IN ("ROI" :> Pct(PctHundredths(final_value - initial_investment, initial_investment)))
       @@ ("absolute_return" :> Num(100 * (final_value - initial_investment)))
       @@ ("twr" :> IF Len(daily_returns) > 0
                    THEN Float("prod(1 + daily_returns) - 1") ELSE Text("N/A"))
       @@ ("irr" :> IF Len(txs) = 1
                    THEN Float("annualized_return")
                    ELSE Text("needs detailed cash flow data"))
       @@ (IF Len(daily_returns) > 0
           THEN ("daily_volatility" :> Float("std(daily_returns)"))
                @@ ("annualized_volatility" :> Float("std(daily_returns) * sqrt(252)"))
                @@ ("sortino_ratio" :>
                       IF \E i \in 1..Len(daily_returns) : BelowDailyRiskFree(daily_returns[i])
                       THEN Float("enhanced: (annualized_return - rf) / downside_deviation")
                       ELSE Text("no downside volatility"))
                @@ ("treynor_ratio" :> Float("(annualized_return - rf) / beta"))
                @@ ("var_95" :> Float("percentile(daily_returns, 5)"))
                @@ ("cvar_95" :> Float("mean(daily_returns <= var_95)"))
                @@ ("downside_deviation" :> Float("sqrt(mean(min(r, 0)^2)) * sqrt(252)"))
                @@ ("alpha" :> Float("annualized_return - capm"))
                @@ ("information_ratio" :> Float("(annualized_return - market) / tracking"))
           ELSE <<>>)
       @@ (IF total_portfolio_value > 0
           THEN ("stock_weights" :>
                    [kind |-> "weights", by |-> "calculate_enhanced_indicators",
                     w |-> [s \in DOMAIN symbol_values |->
                               PctHundredths(symbol_values[s], total_portfolio_value)]])
                @@ ("hhi" :> Num(Hundredths(SumOver(squares, DOMAIN squares),
                                            total_portfolio_value * total_portfolio_value)))
                @@ (IF Cardinality(DOMAIN symbol_values) > 1
                    THEN ("gini" :> Float("pygini.gini(weights)")) ELSE <<>>)
                @@ ("max_contributor" :>
                       [kind |-> "contributor", by |-> "calculate_enhanced_indicators",
                        symbol |-> MaxSymbol(symbol_values)])
           ELSE <<>>)
       @@ ("turnover" :> Text("0%"))
       @@ ("expense_ratio" :> Text("N/A (needs fee data)"))
       @@ ("cash_drag" :> Text("N/A (needs cash data)"))

(***************************************************************************)
(* calculate_rolling_detailed_metrics, enhanced_indicators.py lines        *)
(* 259-298.  Keys, for window w: rolling_w_analysis w日滚动分析,           *)
(*   rolling_w_return w日滚动年化收益, rolling_w_volatility                *)
(*   w日滚动年化波动率, rolling_w_sharpe w日滚动夏普比率,                  *)
(*   rolling_w_max_return w日最高历史收益, rolling_w_min_return            *)
(*   w日最低历史收益, rolling_w_max_volatility w日最高历史波动率,          *)
(*   rolling_w_min_volatility w日最低历史波动率,                           *)
(*   rolling_w_win_rate w日滚动胜率                                        *)
(***************************************************************************)
\* np.sum(x > 0) over the last `window` returns
TrailingWins(daily_returns, window) ==
    Cardinality({i \in (Len(daily_returns) - window + 1)..Len(daily_returns) :
                    FracPos(daily_returns[i])})

calculate_rolling_detailed_metrics(daily_returns, window) ==
    IF Len(daily_returns) < window
    THEN (RollingKey(window, "analysis") :> Text("insufficient data"))
    ELSE (RollingKey(window, "return") :> Float("rolling_mean * 252"))
         @@ (RollingKey(window, "volatility") :> Float("rolling_std * sqrt(252)"))
         @@ (RollingKey(window, "sharpe") :> Float("(rolling_mean * 252 - rf) / rolling_vol"))
         @@ (RollingKey(window, "max_return") :> Float("max rolling_return"))
         @@ (RollingKey(window, "min_return") :> Float("min rolling_return"))
         @@ (RollingKey(window, "max_volatility") :> Float("max rolling_vol"))
         @@ (RollingKey(window, "min_volatility") :> Float("min rolling_vol > 0, else 0"))
         @@ (RollingKey(window, "win_rate") :>
                Pct(PctHundredths(TrailingWins(daily_returns, window), window)))

(***************************************************************************)
(* calculate_streak_metrics, enhanced_indicators.py lines 226-257, and its *)
(* two calls in calculate_win_loss_detailed_metrics, lines 211-212.        *)
(***************************************************************************)
\* one turn of the loop of lines 239-245
StreakStep(st, value) ==
    IF value
    THEN [streaks |-> st.streaks, current_streak |-> st.current_streak + 1]
    ELSE IF st.current_streak > 0
         THEN [streaks |-> Append(st.streaks, st.current_streak), current_streak |-> 0]
         ELSE st

RECURSIVE StreakLoop(_, _, _)
StreakLoop(binary_array, i, st) ==
    IF i > Len(binary_array) THEN st
    ELSE LET next == StreakStep(st, binary_array[i])
         IN IF next.current_streak = next.current_streak
            THEN StreakLoop(binary_array, i + 1, next) ELSE next

\* the list streaks at line 251: the loop, then the run still open at the end
Streaks_unclosed(binary_array) ==
    StreakLoop(binary_array, 1, [streaks |-> <<>>, current_streak |-> 0]).streaks
Streaks(binary_array) ==
    LET st == StreakLoop(binary_array, 1, [streaks |-> <<>>, current_streak |-> 0])
    IN IF st.current_streak > 0 THEN Append(st.streaks, st.current_streak)
       ELSE st.streaks

MaxOf(s) == CHOOSE m \in {s[i] : i \in 1..Len(s)} : \A i \in 1..Len(s) : s[i] <= m

\* avg_streak is the fraction np.mean(streaks), or the integer 0 (as 0/1)
calculate_streak_metrics(binary_array) ==
    LET streaks == Streaks(binary_array)
    IN IF streaks = <<>> THEN [max_streak |-> 0, avg_streak |-> Frac(0, 1)]
       ELSE [max_streak |-> MaxOf(streaks),
             avg_streak |-> Frac(SumSeq(streaks), Len(streaks))]

\* daily_returns > 0 and daily_returns < 0
GreaterThanZero(daily_returns) ==
    [i \in 1..Len(daily_returns) |-> FracPos(daily_returns[i])]
LessThanZero(daily_returns) ==
    [i \in 1..Len(daily_returns) |-> FracNeg(daily_returns[i])]

(***************************************************************************)
(* calculate_win_loss_detailed_metrics, enhanced_indicators.py lines       *)
(* 166-224.  Keys: win_loss_analysis 胜率/败率分析, win_rate 胜率,         *)
(*   loss_rate 败率, avg_gain 平均收益(盈利日), max_gain 最大单日收益,     *)
(*   avg_loss 平均损失(亏损日), max_loss 最大单日损失,                     *)
(*   gain_loss_ratio 收益/损失比, daily_expectancy 每日期望收益,           *)
(*   max_win_streak 最大连续盈利天数, max_loss_streak 最大连续亏损天数,    *)
(*   avg_win_streak 平均连续盈利天数, avg_loss_streak 平均连续亏损天数,    *)
(*   z_score 收益Z分数                                                     *)
(***************************************************************************)
calculate_win_loss_detailed_metrics(daily_returns) ==
    IF Len(daily_returns) < 10
    THEN ("win_loss_analysis" :> Text("insufficient data"))
    ELSE
    LET positive_returns == Positives(daily_returns)
        negative_returns == Negatives(daily_returns)
        win_streak == calculate_streak_metrics(GreaterThanZero(daily_returns))
        loss_streak == calculate_streak_metrics(LessThanZero(daily_returns))
    IN ("win_rate" :> Pct(PctHundredths(Len(positive_returns), Len(daily_returns))))
       @@ ("loss_rate" :> Float("100 - win_rate"))
       @@ (IF Len(positive_returns) > 0
           THEN ("avg_gain" :> Float("mean(positive_returns)"))
                @@ ("max_gain" :> Float("max(positive_returns)"))
           ELSE <<>>)
       @@ (IF Len(negative_returns) > 0
           THEN ("avg_loss" :> Float("mean(negative_returns)"))
                @@ ("max_loss" :> Float("min(negative_returns)"))
                @@ ("gain_loss_ratio" :> Float("abs(mean(positive) / mean(negative))"))
           ELSE <<>>)
       @@ ("daily_expectancy" :> Float("expectancy"))
       @@ ("max_win_streak" :> Days(win_streak.max_streak))
       @@ ("max_loss_streak" :> Days(loss_streak.max_streak))
       @@ ("avg_win_streak" :> Float("avg_streak of the winning runs"))
       @@ ("avg_loss_streak" :> Float("avg_streak of the losing runs"))
       @@ (IF Len(daily_returns) > 30
           THEN ("z_score" :> Float("mean / std, or 0")) ELSE <<>>)

(***************************************************************************)
(* calculate_detailed_drawdown_metrics, enhanced_indicators.py lines       *)
(* 300-388.  Indices are 1-based here (the code's index plus one).         *)
(* Keys: drawdown_analysis 回撤分析, max_drawdown 最大回撤,                *)
(*   avg_drawdown 平均回撤, significant_count 显著回撤次数(>5%)            *)
(***************************************************************************)
\* (peak - portfolio_values[j]) / peak
DepthAt(values, peak, j) == Frac(peak - values[j], peak)

\* max([... for j in range(start, end + 1)])
MaxDepth(values, peak, start, end) ==
    LET deepest == CHOOSE j \in start..end :
                       \A k \in start..end : values[k] >= values[j]
    IN DepthAt(values, peak, deepest)

\* lines 323-344: the body of the loop; st.start = None when no episode is open
EpisodeStep_keeps(values, i, st) ==
    IF values[i] > st.peak
    THEN [st EXCEPT !.peak = values[i]]
    ELSE IF st.peak > 0
    THEN LET current_drawdown == DepthAt(values, st.peak, i)
             start == IF st.start = None /\ FracLess(Frac(2, 100), current_drawdown)
                      THEN i ELSE st.start
             closes == start # None /\ FracLess(current_drawdown, Frac(5, 1000))
         IN [peak |-> st.peak,
             start |-> IF closes THEN None ELSE start,
             drawdowns |-> Append(st.drawdowns, current_drawdown),
             periods |-> IF closes
                         THEN Append(st.periods,
                                     [start |-> start, end |-> i,
                                      depth |-> MaxDepth(values, st.peak, start, i)])
                         ELSE st.periods]
    ELSE st

EpisodeStep(values, i, st) ==
    IF values[i] > st.peak
    THEN [st EXCEPT !.peak = values[i], !.start = None]
    ELSE IF st.peak > 0
    THEN LET current_drawdown == DepthAt(values, st.peak, i)
             start == IF st.start = None /\ FracLess(Frac(2, 100), current_drawdown)
                      THEN i ELSE st.start
             closes == start # None /\ FracLess(current_drawdown, Frac(5, 1000))
         IN [peak |-> st.peak,
             start |-> IF closes THEN None ELSE start,
             drawdowns |-> Append(st.drawdowns, current_drawdown),
             periods |-> IF closes
                         THEN Append(st.periods,
                                     [start |-> start, end |-> i,
                                      depth |-> MaxDepth(values, st.peak, start, i)])
                         ELSE st.periods]
    ELSE st

RECURSIVE EpisodeScan(_, _, _, _)
EpisodeScan(values, lo, hi, st) ==
    IF lo > hi THEN st
    ELSE IF lo = hi THEN EpisodeStep(values, lo, st)
    ELSE LET mid == (lo + hi) \div 2
             left == EpisodeScan(values, lo, mid, st)
         IN IF left.peak = left.peak THEN EpisodeScan(values, mid + 1, hi, left) ELSE left

\* lines 317-351: the episodes in drawdown_periods after the loop and the
\* closing of an episode that is still open
DrawdownPeriods(values) ==
    LET st == EpisodeScan(values, 1, Len(values),
                          [peak |-> values[1], start |-> None,
                           drawdowns |-> <<>>, periods |-> <<>>])
    IN [drawdowns |-> st.drawdowns,
        periods |-> IF st.start # None
                    THEN Append(st.periods,
                                [start |-> st.start, end |-> Len(values),
                                 depth |-> MaxDepth(values, st.peak, st.start, Len(values))])
                    ELSE st.periods]

\* dates holds the strings of the Date column, which are no Timestamp: the
\* duration and date entries of lines 365-386 are never written
calculate_detailed_drawdown_metrics(portfolio_values, dates) ==
    IF Len(portfolio_values) < 5
    THEN ("drawdown_analysis" :> Text("insufficient data"))
    ELSE LET scan == DrawdownPeriods(portfolio_values)
             significant == SelectSeq(scan.periods,
                                      LAMBDA p : FracLess(Frac(5, 100), p.depth))
         IN IF scan.drawdowns # <<>>
            THEN ("max_drawdown" :> Float("max(drawdowns)"))
                 @@ ("avg_drawdown" :> Float("mean(drawdowns)"))
                 @@ ("significant_count" :> Num(Len(significant)))
            ELSE <<>>

(***************************************************************************)
(* calculate_gini_coefficient and calculate_diversity_score, lines         *)
(* 489-549.  The weights are given by their numerators over one common     *)
(* positive denominator, which both formulas cancel.                       *)
(***************************************************************************)
calculate_gini_coefficient_nocase(weights) ==
    LET sorted == SortSeq(weights, LAMBDA a, b : a < b)
        n == Len(sorted)
        ranked == SumSeq([i \in 1..n |-> i * sorted[i]])
    IN Frac(n * SumSeq(sorted) - 2 * ranked, n * SumSeq(sorted))

calculate_gini_coefficient(weights) ==
    LET sorted == SortSeq(weights, LAMBDA a, b : a < b)
        n == Len(sorted)
        ranked == SumSeq([i \in 1..n |-> i * sorted[i]])
    IN IF n <= 1 THEN Frac(1, 1)
       ELSE Frac(n * SumSeq(sorted) - 2 * ranked, n * SumSeq(sorted))

calculate_diversity_score(weights) ==
    LET positive == SelectSeq(weights, LAMBDA w : w > 0)
    IN IF Len(positive) <= 1 THEN Num(0)
       ELSE Float("entropy / log(len(weights))")

RECURSIVE SetToSeq(_)
SetToSeq(S) ==
    IF S = {} THEN <<>>
    ELSE LET x == CHOOSE y \in S : TRUE IN <<x>> \o SetToSeq(S \ {x})

(***************************************************************************)
(* calculate_indicators, lines 134-434.  Keys: info 信息,                  *)
(*   total_return 总收益率, annualized_return 年化收益率,                  *)
(*   volatility 波动率(年化), max_drawdown 最大回撤,                       *)
(*   win_loss_detail 胜负详细分析, rolling_20_analysis 20日滚动分析,       *)
(*   rolling_60_analysis 60日滚动分析, drawdown_detail 回撤详细分析,       *)
(*   sharpe_ratio 夏普比率, risk_return_ratio 收益风险比,                  *)
(*   downside_risk 下行风险, sortino_ratio 索提诺比率,                     *)
(*   max_up_streak 最大连续上涨天数, max_down_streak 最大连续下跌天数,     *)
(*   win_rate 胜率, avg_daily_return 平均每日收益, calmar_ratio 卡尔玛比率,*)
(*   stock_weights 股票权重, max_contributor 最大贡献,                     *)
(*   concentration_gini 投资集中度(基尼系数),                              *)
(*   diversity_entropy 投资多样性(熵值)                                    *)
(***************************************************************************)
\* lines 211-241: total return and annualized return
ReturnIndicators(initial_investment, final_value, days) ==
    ("total_return" :> Pct(PctHundredths(final_value - initial_investment, initial_investment)))
    @@ ("annualized_return" :>
           IF days > 0 /\ initial_investment > 0 /\ final_value > 0
           THEN IF final_value > initial_investment
                THEN [kind |-> "pct", formula |-> "compound",
                      ratio |-> Frac(final_value, initial_investment),
                      years |-> Frac(days, 365)]
                ELSE [kind |-> "pct", formula |-> "simple",
                      v |-> PctHundredths((final_value - initial_investment) * 365,
                                          initial_investment * days)]
           ELSE Text("N/A"))

\* annualized_return != 0 at line 350
AnnualizedNonZero(initial_investment, final_value, days) ==
    days > 0 /\ initial_investment > 0 /\ final_value > 0
    /\ final_value # initial_investment

\* lines 297-304: the Sharpe entry
SharpeEntry_divides(daily_returns) == Float("(mean * 252 - rf) / (std * sqrt(252))")

SharpeEntry(daily_returns) ==
    IF StdPositive(daily_returns)
    THEN Float("(mean * 252 - rf) / (std * sqrt(252))")
    ELSE Text("N/A (no volatility)")

\* lines 297-358: the ratios of the risk block
RiskRatios(daily_returns, max_drawdown, initial_investment, final_value, days) ==
    LET negative_returns == Negatives(daily_returns)
        up_days == [i \in 1..Len(daily_returns) |-> IF FracPos(daily_returns[i]) THEN 1 ELSE 0]
        down_days == [i \in 1..Len(daily_returns) |-> IF FracNeg(daily_returns[i]) THEN 1 ELSE 0]
        gain == final_value - initial_investment
    IN ("sharpe_ratio" :> SharpeEntry(daily_returns))
       @@ ("risk_return_ratio" :>
              IF FracPos(max_drawdown)
              THEN Num(Hundredths((IF gain < 0 THEN 0 - gain ELSE gain) * max_drawdown.d,
                                  initial_investment * max_drawdown.n))
              ELSE Text("N/A (no drawdown)"))
       @@ ("downside_risk" :> IF Len(negative_returns) > 0
                              THEN Float("std(negative_returns) * sqrt(252)")
                              ELSE Pct(0))
       @@ ("sortino_ratio" :>
              IF Len(negative_returns) > 0 /\ StdPositive(negative_returns)
              THEN Float("calculate_indicators: (mean * 252 - rf) / (std(negative) * sqrt(252))")
              ELSE Text("N/A (no downside risk)"))
       @@ ("max_up_streak" :> Days(calculate_max_streak(up_days)))
       @@ ("max_down_streak" :> Days(calculate_max_streak(down_days)))
       @@ ("win_rate" :> Pct(PctHundredths(Len(Positives(daily_returns)), Len(daily_returns))))
       @@ ("avg_daily_return" :> Float("mean(daily_returns)"))
       @@ ("calmar_ratio" :>
              IF FracPos(max_drawdown) /\ AnnualizedNonZero(initial_investment, final_value, days)
              THEN Float("abs(annualized_return / max_drawdown)")
              ELSE Text("N/A"))

\* lines 377-387: the entries of an empty return array
NoReturnsIndicators_short ==
    [k \in {"volatility", "max_drawdown", "sharpe_ratio"} |-> Text("N/A")]

NoReturnsIndicators ==
    [k \in {"volatility", "max_drawdown", "sharpe_ratio", "risk_return_ratio",
            "downside_risk", "sortino_ratio", "max_up_streak", "max_down_streak",
            "win_rate", "avg_daily_return", "calmar_ratio"} |-> Text("N/A")]

\* lines 390-432: weights and concentration
PortfolioAnalysis(frame, final_value) ==
    LET latest_values == frame[Len(frame)].value
        symbols == DOMAIN latest_values
        weights == SetToSeq({<<s, latest_values[s]>> : s \in symbols})
        numerators == [i \in 1..Len(weights) |-> weights[i][2]]
    IN IF final_value > 0 /\ symbols # {}
       THEN ("stock_weights" :>
                [kind |-> "weights", by |-> "calculate_indicators",
                 w |-> [s \in symbols |-> PctHundredths(latest_values[s], final_value)]])
            @@ (IF Cardinality(symbols) > 1
                THEN LET gini == calculate_gini_coefficient(numerators)
                     IN ("concentration_gini" :> Num(Hundredths(gini.n, gini.d)))
                        @@ ("diversity_entropy" :> calculate_diversity_score(numerators))
                ELSE ("concentration_gini" :>
                         [kind |-> "num", v |-> 100, note |-> "single investment"])
                     @@ ("diversity_entropy" :>
                            [kind |-> "num", v |-> 0, note |-> "single investment"]))
            @@ ("max_contributor" :>
                   [kind |-> "contributor", by |-> "calculate_indicators",
                    symbol |-> MaxSymbol(latest_values)])
       ELSE ("stock_weights" :>
                [kind |-> "weights", by |-> "calculate_indicators",
                 w |-> [s \in symbols |-> 0]])
            @@ ("max_contributor" :> Text("none (portfolio value is 0)"))
            @@ ("concentration_gini" :> Text("N/A"))
            @@ ("diversity_entropy" :> Text("N/A"))

\* line 153: len(portfolio_value_df) < 2
InsufficientData_empty(frame) == Len(frame) < 1

InsufficientData(frame) == Len(frame) < 2

calculate_indicators(frame, txs) ==
    IF InsufficientData(frame)
    THEN [indicators |-> ("info" :> Text("insufficient data")), raised |-> "none"]
    \* line 162: pd.to_datetime of a Date column that holds an unparseable string
    ELSE IF \E i \in 1..Len(frame) : "ymd" \notin DOMAIN frame[i].Date
    THEN [indicators |-> <<>>, raised |-> "ValueError"]
    ELSE
    LET total_values == TotalValues(frame)
        dates == [i \in 1..Len(frame) |-> ToDatetime(frame[i].Date)]
        days == dates[Len(dates)] - dates[1]
        initial_investment == InitialInvestment(txs)
        final_value == FinalValue(total_values)
        daily_returns == DailyReturns(total_values)
        n == Len(daily_returns)
        max_drawdown == calculate_max_drawdown(total_values)
        d0 == ReturnIndicators(initial_investment, final_value, days)
        \* lines 245-296
        d1 == Put(Put(d0, "volatility",
                      IF StdPositive(daily_returns)
                      THEN Float("std(daily_returns) * sqrt(252)") ELSE Pct(0)),
                  "max_drawdown", Pct(PctHundredths(max_drawdown.n, max_drawdown.d)))
        d2 == AddMissing(d1, calculate_enhanced_indicators(frame, daily_returns,
                                 initial_investment, final_value, txs))
        d3 == IF n > 10
              THEN Put(d2, "win_loss_detail",
                       Entries(calculate_win_loss_detailed_metrics(daily_returns)))
              ELSE d2
        d4 == IF n >= 60
              THEN Put(Put(d3, "rolling_20_analysis",
                           Entries(calculate_rolling_detailed_metrics(daily_returns, 20))),
                       "rolling_60_analysis",
                       Entries(calculate_rolling_detailed_metrics(daily_returns, 60)))
              ELSE d3
        d5 == IF Len(total_values) > 30
              THEN Put(d4, "drawdown_detail", Group("drawdown_detail")) ELSE d4
        \* lines 297-358
        d6 == Update(d5, RiskRatios(daily_returns, max_drawdown, initial_investment,
                                    final_value, days))
        d7 == Update(d6, calculate_win_loss_metrics(daily_returns))
        \* lines 360-367
        rolling_20d == IF n >= 20 THEN calculate_rolling_metrics(daily_returns, 20)
                       ELSE [raised |-> FALSE, result |-> <<>>]
        d8 == Update(d7, rolling_20d.result)
        rolling_60d == IF n >= 60 THEN calculate_rolling_metrics(daily_returns, 60)
                       ELSE [raised |-> FALSE, result |-> <<>>]
        d9 == Update(d8, rolling_60d.result)
        \* lines 369-375
        d10 == IF Len(total_values) > 20
               THEN Update(d9, calculate_drawdown_metrics(total_values, dates)) ELSE d9
    IN IF n > 0
       THEN IF rolling_20d.raised THEN [indicators |-> d7, raised |-> "ValueError"]
            ELSE IF rolling_60d.raised THEN [indicators |-> d8, raised |-> "ValueError"]
            ELSE [indicators |-> Update(d10, PortfolioAnalysis(frame, final_value)),
                  raised |-> "none"]
       ELSE [indicators |-> Update(Update(d0, NoReturnsIndicators),
                                   PortfolioAnalysis(frame, final_value)),
             raised |-> "none"]

(***************************************************************************)
(* The requests the model explores.                                        *)
(***************************************************************************)
Transaction(sym, q, bd, bp) ==
    [symbol |-> sym, quantity |-> q, buy_date |-> bd, buy_price |-> bp]

TxChoices ==
    {Transaction(sym, q, bd, 100) :
        sym \in Symbols, q \in {1, 2}, bd \in {BadDate, 0, MaxDay - 2}}
StartDates == {BadDate, 0, 5}
EndDates == {BadDate, 0, MaxDay}
Kinds == {"fail", "empty", "rise"}

\* ten shares of A, bought on day 0 or 5, for nothing or for 100; ten of B
TxChoicesLong ==
    {Transaction("A", 10, bd, bp) : bd \in {0, 5}, bp \in {0, 100}}
    \cup {Transaction("B", 10, 0, 100)}
StartDatesLong == {BadDate, 0}
EndDatesLong == {1, 11, 20, 30, LongDays}
KindsLong == {"empty", "flat", "rise", "fall", "dip"}
MarketsLong == {m \in [Symbols -> KindsLong] : m["B"] \in {"empty", "flat", "rise"}}

Idle ==
    /\ pc = "call"
    /\ portfolio_value = <<>>
    /\ stock_data = <<>>
    /\ txi = 1
    /\ via = "none"
    /\ indicators = <<>>
    /\ raised = "none"
    /\ previous = [called |-> FALSE, frame |-> <<>>]
    /\ args = [fn |-> "none"]
    /\ result = None

Init ==
    /\ transactions \in SeqsUpTo(TxChoices, MaxTx)
    /\ start_date \in StartDates
    /\ end_date \in EndDates
    /\ market \in [Symbols -> Kinds]
    /\ Idle

InitLong ==
    /\ transactions \in SeqsUpTo(TxChoicesLong, MaxTx)
    /\ start_date \in StartDatesLong
    /\ end_date \in EndDatesLong
    /\ market \in MarketsLong
    /\ Idle

(***************************************************************************)
(* The steps of calculate_portfolio_value and of calculate_indicators.     *)
(***************************************************************************)
\* line 54: the loop over the transactions starts at the first one
LoopStart_resume == txi

LoopStart == 1

\* lines 27-51: the date range, the zero frame and the downloads
BuildFrame ==
    /\ pc = "call"
    /\ IF Parseable(start_date) /\ Parseable(end_date)
       THEN LET dl == DownloadAll(transactions, market, start_date, end_date)
            IN IF dl.raised
               THEN /\ pc' = "except"
                    /\ UNCHANGED <<portfolio_value, stock_data, txi>>
               ELSE /\ pc' = "valuing"
                    /\ portfolio_value' = EmptyFrame(transactions, start_date, end_date)
                    /\ stock_data' = dl.data
                    /\ txi' = LoopStart
       ELSE /\ pc' = "except"
            /\ UNCHANGED <<portfolio_value, stock_data, txi>>
    /\ UNCHANGED <<transactions, start_date, end_date, market, via,
                   indicators, raised, previous, args, result>>

\* lines 54-94: one transaction of the valuation loop
ValueTransaction ==
    /\ pc = "valuing"
    /\ txi <= Len(transactions)
    /\ IF Parseable(transactions[txi].buy_date)
       THEN /\ portfolio_value' = ValueTx(portfolio_value, transactions[txi], stock_data)
            /\ txi' = txi + 1
            /\ pc' = pc
       ELSE /\ pc' = "except"
            /\ UNCHANGED <<portfolio_value, txi>>
    /\ UNCHANGED <<transactions, start_date, end_date, market, stock_data, via,
                   indicators, raised, previous, args, result>>

\* lines 96-105: the normal return
ReturnFrame ==
    /\ pc = "valuing"
    /\ txi > Len(transactions)
    /\ portfolio_value' = FinishFrame(portfolio_value)
    /\ pc' = "valued"
    /\ via' = "return"
    /\ UNCHANGED <<transactions, start_date, end_date, market, stock_data, txi,
                   indicators, raised, previous, args, result>>

\* lines 106-112: the except branch
Fallback ==
    /\ pc = "except"
    /\ portfolio_value' = FallbackFrame(transactions, start_date)
    /\ pc' = "valued"
    /\ via' = "except"
    /\ UNCHANGED <<transactions, start_date, end_date, market, stock_data, txi,
                   indicators, raised, previous, args, result>>

\* a second request with the same transactions and dates: the frame of the
\* first call is kept for comparison, the locals of the first call are dead
CallAgain ==
    /\ pc = "valued"
    /\ ~previous.called
    /\ previous' = [called |-> TRUE, frame |-> portfolio_value]
    /\ pc' = "call"
    /\ UNCHANGED <<transactions, start_date, end_date, market, portfolio_value,
                   stock_data, txi, via, indicators, raised, args, result>>

\* calculate_indicators(portfolio_value_df, transactions), as app.py calls it
CalculateIndicators ==
    /\ pc = "valued"
    /\ LET r == calculate_indicators(portfolio_value, transactions)
       IN /\ indicators' = r.indicators
          /\ raised' = r.raised
    /\ pc' = "reported"
    /\ UNCHANGED <<transactions, start_date, end_date, market, portfolio_value,
                   stock_data, txi, via, previous, args, result>>

Next ==
    \/ BuildFrame
    \/ ValueTransaction
    \/ ReturnFrame
    \/ Fallback
    \/ CallAgain
    \/ CalculateIndicators

Spec == Init /\ [][Next]_vars

SpecLong == InitLong /\ [][Next]_vars

(***************************************************************************)
(* The helper functions called on their own, on weight lists and on value  *)
(* series that need not come from a price feed.                            *)
(***************************************************************************)
MaxWeights == 3
MaxWeight == 3
MaxSeries == 4
MaxScan == 5
MaxReturns == 5
PatternLen == 3
StreakRows == 13

WeightLists == SeqsUpTo(0..MaxWeight, MaxWeights)

\* portfolio values around a peak of 1000: 0.4 %, 3 %, 6 % and 30 % below it,
\* 1 % above it, and nothing at all
SeriesValues == {0, 700, 940, 970, 996, 1000, 1010}
ValueSeries == SeqsUpTo(SeriesValues, MaxSeries)

\* the series of the drawdown scans: they stay positive
ScanValues == {700, 970, 996, 1000, 1010}
ScanSeries == SeqsUpTo(ScanValues, MaxScan)

\* daily returns of -1 %, 0 and 2 %
ReturnValues == {Frac(-1, 100), Frac(0, 1), Frac(2, 100)}
ReturnSeries == SeqsUpTo(ReturnValues, MaxReturns)

\* a position sold short: quantity and buy_price are unvalidated floats
\* (app.py lines 31-33), so the last total and the sum paid can be negative
ShortSeries == <<1000, -50>>
PaidChoices == {-1000, 0, 1000}

\* the shortest series the detailed scan accepts, and the series of that
\* length that hold the value of a short position
MinScan == 5
ShortScanSeries == [1..MinScan -> {-50, 996, 1000}]

\* series in which the portfolio is worth nothing on some days
ZeroScanSeries == [1..MinScan -> {0, 700, 1000}]

\* series long enough for the win/loss detail (more than 10 returns): the
\* value starts at 1000 and moves by a repeated pattern of daily changes
ChangePatterns == [1..PatternLen -> {-10, 0, 10}]
PatternSeries(p) ==
    [i \in 1..StreakRows |->
        1000 + SumSeq([k \in 1..(i - 1) |-> p[((k - 1) % PatternLen) + 1]])]

\* the dates of a series handed to a function with its dates: every other day
ScanDates(values) == [i \in 1..Len(values) |-> 2 * i]

\* ten shares of a symbol that falls from 100 to 70 over ten days and is back
\* at 100 on day 20, valued on each of 25 days
Scenario3Series == [i \in 1..25 |-> 10 * ClosePrice("dip", i - 1)]

\* the frame of one or two symbol columns that each hold the series
PureFrame(series, symbols) ==
    [i \in 1..Len(series) |->
        [Date |-> DateStr(i - 1),
         TotalValue |-> Cardinality(symbols) * series[i],
         value |-> [s \in symbols |-> series[i]]]]

\* one share of each symbol, bought on day 0
PureTransactions(symbols, buy_price) ==
    [i \in 1..Cardinality(symbols) |->
        Transaction(SetToSeq(symbols)[i], 1, 0, buy_price)]

PureCalls ==
    {[fn |-> "calculate_gini_coefficient", weights |-> w] : w \in WeightLists}
    \cup {[fn |-> "calculate_diversity_score", weights |-> w] : w \in WeightLists}
    \cup {[fn |-> "calculate_detailed_drawdown_metrics", values |-> v] :
             v \in ScanSeries \cup ShortScanSeries}
    \cup {[fn |-> "calculate_drawdown_metrics", values |-> v, dates |-> ScanDates(v)] :
             v \in ScanSeries \ {<<>>}}
    \cup {[fn |-> "calculate_max_drawdown", values |-> v] :
             v \in ScanSeries \cup ZeroScanSeries}
    \cup {[fn |-> "calculate_streak_metrics", daily_returns |-> r] :
             r \in ReturnSeries}
    \cup {[fn |-> "calculate_indicators",
           frame |-> PureFrame(ShortSeries, {"A"}),
           txs |-> PureTransactions({"A"}, bp)] : bp \in PaidChoices}
    \cup {[fn |-> "calculate_indicators",
           frame |-> PureFrame(<<1000, 1010>>, {"A"}),
           txs |-> PureTransactions({"A"}, -1000)]}
    \cup {[fn |-> "calculate_indicators",
           frame |-> PureFrame(PatternSeries(p), {"A"}),
           txs |-> PureTransactions({"A"}, 1000)] : p \in ChangePatterns}
    \cup {[fn |-> "calculate_indicators",
           frame |-> PureFrame(Scenario3Series, {"A"}),
           txs |-> PureTransactions({"A"}, 1000)]}
    \cup {[fn |-> "calculate_indicators",
           frame |-> PureFrame(v, syms), txs |-> PureTransactions(syms, bp)] :
             v \in ValueSeries, syms \in {{"A"}, {"A", "B"}}, bp \in {0, 1000}}

InitPure ==
    /\ transactions = <<>>
    /\ start_date = 0
    /\ end_date = 0
    /\ market = [s \in Symbols |-> "empty"]
    /\ pc = "pure"
    /\ portfolio_value = <<>>
    /\ stock_data = <<>>
    /\ txi = 1
    /\ via = "none"
    /\ indicators = <<>>
    /\ raised = "none"
    /\ previous = [called |-> FALSE, frame |-> <<>>]
    /\ args \in PureCalls
    /\ result = None

Applied(fn) == pc = "applied" /\ args.fn = fn

Returning(fn, value) ==
    /\ pc = "pure"
    /\ args.fn = fn
    /\ result' = value
    /\ pc' = "applied"
    /\ UNCHANGED <<transactions, start_date, end_date, market, portfolio_value,
                   stock_data, txi, via, indicators, raised, previous, args>>

GiniCoefficient ==
    Returning("calculate_gini_coefficient", calculate_gini_coefficient(args.weights))

DiversityScore ==
    Returning("calculate_diversity_score", calculate_diversity_score(args.weights))

\* what the function returned or raised, and its local daily_returns
Indicators ==
    Returning("calculate_indicators",
              LET r == calculate_indicators(args.frame, args.txs)
              IN [indicators |-> r.indicators,
                  raised |-> r.raised,
                  daily_returns |-> IF InsufficientData(args.frame) THEN <<>>
                                    ELSE DailyReturns(TotalValues(args.frame))])

\* the dict the function returns and its local drawdown_periods
DetailedDrawdownMetrics ==
    Returning("calculate_detailed_drawdown_metrics",
              [returned |-> calculate_detailed_drawdown_metrics(args.values, <<>>),
               drawdown_periods |-> IF Len(args.values) < MinScan THEN <<>>
                                    ELSE DrawdownPeriods(args.values).periods])

DrawdownMetrics ==
    Returning("calculate_drawdown_metrics",
              calculate_drawdown_metrics(args.values, args.dates))

\* the two calls of lines 211-212, each with its dict and its local streaks
StreakMetrics ==
    Returning("calculate_streak_metrics",
              LET wins == GreaterThanZero(args.daily_returns)
                  losses == LessThanZero(args.daily_returns)
              IN [win_streak |-> calculate_streak_metrics(wins),
                  win_streaks |-> Streaks(wins),
                  loss_streak |-> calculate_streak_metrics(losses),
                  loss_streaks |-> Streaks(losses)])

MaxDrawdown ==
    Returning("calculate_max_drawdown", calculate_max_drawdown(args.values))

NextPure ==
    \/ GiniCoefficient
    \/ MaxDrawdown
    \/ StreakMetrics
    \/ DrawdownMetrics
    \/ DetailedDrawdownMetrics
    \/ DiversityScore
    \/ Indicators

SpecPure == InitPure /\ [][NextPure]_vars

(***************************************************************************)
(* Properties of calculate_portfolio_value.                                *)
(***************************************************************************)
Returned == pc \in {"valued", "reported"}
Succeeded == Returned /\ via = "return"
Rows == 1..Len(portfolio_value)
AllDatesParse ==
    /\ Parseable(start_date)
    /\ Parseable(end_date)
    /\ \A k \in 1..Len(transactions) : Parseable(transactions[k].buy_date)

\* the steps and the one-function form of calculate_portfolio_value agree
StepsAgreeWithFunction ==
    Returned =>
        portfolio_value = calculate_portfolio_value(transactions, start_date, end_date, market)

\* C1: in every returned frame (normal or fallback) the TotalValue cell of every
\* row equals the sum of the row's per-symbol cells.
C1_TotalIsSumOfSymbols ==
    Returned =>
        \A i \in Rows :
            portfolio_value[i].TotalValue =
                SumOver(portfolio_value[i].value, DOMAIN portfolio_value[i].value)

\* a returned row fed by two transactions of one symbol and by a second symbol
C1_Witness ==
    /\ Succeeded
    /\ \E j, k \in 1..Len(transactions) :
          j # k /\ transactions[j].symbol = transactions[k].symbol
    /\ \E i \in Rows : portfolio_value[i].TotalValue >= 4 * 100

\* C2 as stated: an empty transaction list, an unparseable start date or an
\* unparseable buy date each give the one-row zero frame.
C2_Original ==
    Returned /\ ( \/ transactions = <<>>
                  \/ ~Parseable(start_date)
                  \/ \E k \in 1..Len(transactions) : ~Parseable(transactions[k].buy_date) )
    => /\ Len(portfolio_value) = 1
       /\ portfolio_value[1].TotalValue = 0
       /\ \A s \in DOMAIN portfolio_value[1].value : portfolio_value[1].value[s] = 0

\* C2 amended: an unparseable start, end or buy date gives the one-row zero frame
\* of the except branch; an empty transaction list with parseable dates is no
\* failure and gives the normal frame, one row per calendar day, all zero.
C2_FallbackOnBadDates ==
    Returned =>
        /\ ~AllDatesParse =>
              /\ via = "except"
              /\ Len(portfolio_value) = 1
              /\ portfolio_value[1].TotalValue = 0
              /\ DOMAIN portfolio_value[1].value = SymbolsOf(transactions)
              /\ \A s \in DOMAIN portfolio_value[1].value : portfolio_value[1].value[s] = 0
        /\ AllDatesParse => via = "return"
        /\ AllDatesParse /\ transactions = <<>> =>
              /\ Len(portfolio_value) = Len(date_range(start_date, end_date))
              /\ \A i \in Rows : portfolio_value[i].TotalValue = 0

\* the except branch taken for an unparseable buy date, the range being fine
C2_Witness ==
    /\ Returned
    /\ via = "except"
    /\ Parseable(start_date) /\ Parseable(end_date) /\ start_date < end_date
    /\ Len(portfolio_value) = 1

\* C6: valuing a transaction leaves every row dated before its buy date as it
\* was, and in a returned frame a symbol all of whose transactions are bought
\* after a row's date is worth 0 on that row.
C6_NothingBeforeBuyDate ==
    /\ [][ pc = "valuing" /\ txi' = txi + 1 =>
              \A i \in Rows :
                  portfolio_value[i].Date < transactions[txi].buy_date =>
                      portfolio_value'[i] = portfolio_value[i] ]_vars
    /\ [](Succeeded =>
             \A i \in Rows : \A s \in SymbolsOf(transactions) :
                 (\A k \in 1..Len(transactions) :
                      transactions[k].symbol = s =>
                          transactions[k].buy_date > ToDatetime(portfolio_value[i].Date))
                 => portfolio_value[i].value[s] = 0)

\* a symbol worth 0 on a trading day before its only buy date and worth
\* something on a later row
C6_Witness ==
    /\ Succeeded
    /\ \E s \in DOMAIN stock_data : \E i, j \in Rows :
          /\ i < j
          /\ find_closest_trading_date(stock_data[s], ToDatetime(portfolio_value[i].Date)) # None
          /\ \A k \in 1..Len(transactions) :
                transactions[k].symbol = s =>
                    transactions[k].buy_date > ToDatetime(portfolio_value[i].Date)
          /\ portfolio_value[i].value[s] = 0
          /\ portfolio_value[j].value[s] > 0

\* C7: a frame returned by the normal path has one row per calendar day of
\* start_date..end_date, in increasing order, and the columns Date, TotalValue
\* and one per distinct symbol of the transactions.
C7_OneRowPerCalendarDay ==
    Succeeded =>
        /\ Len(portfolio_value) =
              (IF end_date >= start_date THEN end_date - start_date + 1 ELSE 0)
        /\ \A i \in Rows :
              /\ ToDatetime(portfolio_value[i].Date) = start_date + i - 1
              /\ DOMAIN portfolio_value[i] = {"Date", "TotalValue", "value"}
              /\ DOMAIN portfolio_value[i].value = SymbolsOf(transactions)

\* a normal frame over a range with a weekend in it and two symbol columns
C7_Witness ==
    /\ Succeeded
    /\ end_date - start_date >= 7
    /\ Len(portfolio_value) = end_date - start_date + 1
    /\ Cardinality(SymbolsOf(transactions)) = 2

\* the greatest date of the series that is <= target, None when there is none
GreatestDateUpTo(stock_df, target) ==
    LET D == {d \in {stock_df[i].Date : i \in 1..Len(stock_df)} : d <= target}
    IN IF D = {} THEN None ELSE CHOOSE d \in D : \A e \in D : e <= d

\* quantity times the most recent close of the series, per transaction held on d
HeldValue(s, d) ==
    LET held == {k \in 1..Len(transactions) :
                    transactions[k].symbol = s /\ transactions[k].buy_date <= d}
        g == GreatestDateUpTo(stock_data[s], d)
        worth == [k \in held |->
                     IF g = None THEN 0
                     ELSE transactions[k].quantity * CloseAt(stock_data[s], g)]
    IN SumOver(worth, held)

\* C8: find_closest_trading_date returns the greatest date of the series that is
\* <= target and None when the series is empty or starts after target, and a
\* returned cell is the held quantity times the close of that date.
C8_ClosestTradingDate ==
    /\ \A s \in DOMAIN stock_data : \A target \in 0..(MaxDay + 1) :
          find_closest_trading_date(stock_data[s], target)
              = GreatestDateUpTo(stock_data[s], target)
    /\ Succeeded =>
          \A i \in Rows : \A s \in DOMAIN stock_data :
              portfolio_value[i].value[s] = HeldValue(s, ToDatetime(portfolio_value[i].Date))

\* a Saturday row of a held position, resolved to the Friday before it
C8_Witness ==
    /\ Succeeded
    /\ \E i \in Rows : \E s \in DOMAIN stock_data :
          LET d == ToDatetime(portfolio_value[i].Date)
          IN /\ d % 7 = 5
             /\ find_closest_trading_date(stock_data[s], d) = d - 1
             /\ portfolio_value[i].value[s] > 0
             /\ portfolio_value[i].value[s] = HeldValue(s, d)

BadSymbols == {s \in SymbolsOf(transactions) : market[s] \in {"empty", "fail"}}
Without(txs, s) == SelectSeq(txs, LAMBDA t : t.symbol # s)

\* C9: with every date parseable, a symbol whose download is empty or raises
\* does not send the valuation to the except branch; its column is 0 on every
\* row and every other column and TotalValue are those of the valuation of the
\* transactions without that symbol.
C9_BadSymbolContributesZero ==
    Returned /\ AllDatesParse =>
        \A s \in BadSymbols :
            LET other == calculate_portfolio_value(Without(transactions, s),
                                                   start_date, end_date, market)
            IN /\ via = "return"
               /\ Len(other) = Len(portfolio_value)
               /\ \A i \in Rows :
                     /\ portfolio_value[i].value[s] = 0
                     /\ portfolio_value[i].TotalValue = other[i].TotalValue
                     /\ \A t \in DOMAIN other[i].value :
                           portfolio_value[i].value[t] = other[i].value[t]

\* one symbol's download raises and the other symbol is still valued
C9_Witness ==
    /\ Succeeded
    /\ \E s \in BadSymbols : market[s] = "fail"
    /\ \E i \in Rows : portfolio_value[i].TotalValue > 0

(***************************************************************************)
(* The report.                                                             *)
(***************************************************************************)
\* calculate_indicators was called with a frame of at least two rows
Reported == pc = "reported" /\ Len(portfolio_value) >= 2
\* ... and returned its report
ReportReturned == Reported /\ raised = "none"
Returns == DailyReturns(TotalValues(portfolio_value))
AllEqual(x) == \A i, j \in 1..Len(x) : FracEq(x[i], x[j])

\* C3: calculate_indicators completes on every frame of at least two rows,
\* degenerate ones included: it returns the report and raises nothing.
C3_CompletesOnDegenerateInput == Reported => raised = "none"

\* the names every report of a frame of at least two rows carries
CoreNames ==
    {"total_return", "annualized_return", "volatility", "max_drawdown", "sharpe_ratio",
     "risk_return_ratio", "downside_risk", "sortino_ratio", "max_up_streak",
     "max_down_streak", "win_rate", "avg_daily_return", "calmar_ratio", "stock_weights",
     "max_contributor", "concentration_gini", "diversity_entropy"}

\* the report of ten shares of a rising symbol held over twelve days
ReferenceReport ==
    LET txs == <<Transaction("A", 10, 0, 100)>>
    IN calculate_indicators(
           calculate_portfolio_value(txs, 0, 11, [s \in Symbols |-> "rise"]), txs).indicators

C5_InsufficientDataOnly ==
    pc = "reported" /\ Len(portfolio_value) < 2 =>
        /\ raised = "none"
        /\ DOMAIN indicators = {"info"}
        /\ indicators["info"] = Text("insufficient data")

\* the report of a one-row frame of a request with a transaction
C5_Witness ==
    /\ pc = "reported"
    /\ Len(portfolio_value) = 1
    /\ transactions # <<>>
    /\ DOMAIN indicators = {"info"}

\* C10: whenever the risk block ran (the return array is not empty), the
\* Sharpe entry is a marker when all returns are equal (standard deviation 0),
\* the Sortino entry is a marker when no return is negative, the Calmar entry
\* is a marker when no value lies below an earlier one (max drawdown 0), and
\* the Sortino entry is the one calculate_indicators wrote, not the enhanced
\* module's.
C10_DegenerateRatiosAreMarkers ==
    Reported /\ Len(Returns) > 0 =>
        /\ {"sharpe_ratio", "sortino_ratio", "calmar_ratio"} \subseteq DOMAIN indicators
        /\ AllEqual(Returns) => IsMarker(indicators["sharpe_ratio"])
        /\ (\A i \in 1..Len(Returns) : ~FracNeg(Returns[i]))
              => IsMarker(indicators["sortino_ratio"])
        /\ (\A i, j \in Rows : i < j =>
                  portfolio_value[j].TotalValue >= portfolio_value[i].TotalValue)
              => IsMarker(indicators["calmar_ratio"])
        /\ indicators["sortino_ratio"] \in
              {Text("N/A (no downside risk)"),
               Float("calculate_indicators: (mean * 252 - rf) / (std(negative) * sqrt(252))")}

\* a returned report of a flat, positive value series: the three ratios are
\* markers, and the enhanced module's Sortino entry would have been a number
C10_Witness ==
    /\ ReportReturned
    /\ Len(Returns) > 0
    /\ AllEqual(Returns)
    /\ \E i \in 1..Len(Returns) : BelowDailyRiskFree(Returns[i])
    /\ IsMarker(indicators["sharpe_ratio"])
    /\ indicators["sortino_ratio"] = Text("N/A (no downside risk)")
    /\ IsMarker(indicators["calmar_ratio"])

(***************************************************************************)
(* Concentration and diversity.                                            *)
(***************************************************************************)
\* calculate_indicators returned a report (not the insufficient-data one)
\* for the frame of the call
ReportApplied ==
    /\ Applied("calculate_indicators")
    /\ Len(args.frame) >= 2
    /\ result.raised = "none"
OneSymbolColumn == Cardinality(DOMAIN args.frame[1].value) = 1
LastTotal == args.frame[Len(args.frame)].TotalValue

\* C11 as stated: the two functions return 1.0 and 0.0 on a list of at most
\* one weight, and every report of a frame with one symbol column carries
\* Gini 1.00 and diversity 0.00.
C11_SingleAssetGiniAndDiversity ==
    /\ Applied("calculate_gini_coefficient") /\ Len(args.weights) <= 1
          => result = Frac(1, 1)
    /\ Applied("calculate_diversity_score") /\ Len(args.weights) <= 1
          => result = Num(0)
    /\ ReportApplied /\ OneSymbolColumn
          => /\ result.indicators["concentration_gini"].kind = "num"
             /\ result.indicators["concentration_gini"].v = 100
             /\ result.indicators["diversity_entropy"].kind = "num"
             /\ result.indicators["diversity_entropy"].v = 0

\* C11, amended: the two functions return 1.0 and 0.0 on a list of at most
\* one weight; a report of a frame with one symbol column carries Gini 1.00
\* and diversity 0.00 when the final portfolio value is positive, and the
\* "N/A" marker for both when the final value is 0.
C11_SingleAssetWithPositiveValue ==
    /\ Applied("calculate_gini_coefficient") /\ Len(args.weights) <= 1
          => result = Frac(1, 1)
    /\ Applied("calculate_diversity_score") /\ Len(args.weights) <= 1
          => result = Num(0)
    /\ ReportApplied /\ OneSymbolColumn
          => IF LastTotal > 0
             THEN /\ result.indicators["concentration_gini"].kind = "num"
                  /\ result.indicators["concentration_gini"].v = 100
                  /\ result.indicators["diversity_entropy"].kind = "num"
                  /\ result.indicators["diversity_entropy"].v = 0
             ELSE /\ result.indicators["concentration_gini"] = Text("N/A")
                  /\ result.indicators["diversity_entropy"] = Text("N/A")

\* the report of a one-column frame that ends on a positive value
C11_Witness ==
    /\ ReportApplied
    /\ OneSymbolColumn
    /\ LastTotal > 0
    /\ result.indicators["concentration_gini"].v = 100
    /\ result.indicators["diversity_entropy"].v = 0

RunningPeak(v, i) == CHOOSE x \in {v[j] : j \in 1..i} : \A j \in 1..i : v[j] <= x
\* the drawdown from the running peak, of a positive series
DrawdownAt(v, i) == Frac(RunningPeak(v, i) - v[i], RunningPeak(v, i))
OverTwoPercent(v, i) == FracLess(Frac(2, 100), DrawdownAt(v, i))
BelowHalfPercent(v, i) == FracLess(DrawdownAt(v, i), Frac(5, 1000))
\* an episode opened before i has not closed before i
OpenBefore(v, i) ==
    \E s \in 1..(i - 1) :
        OverTwoPercent(v, s) /\ \A j \in (s + 1)..(i - 1) : ~BelowHalfPercent(v, j)
OpensAt(v, i) == OverTwoPercent(v, i) /\ ~OpenBefore(v, i)
\* the index at which the episode opened at s closes, or the last index
ClosesAt(v, s) ==
    LET closing == {j \in (s + 1)..Len(v) : BelowHalfPercent(v, j)}
    IN IF closing = {} THEN Len(v)
       ELSE CHOOSE j \in closing : \A k \in closing : j <= k
\* the deepest drawdown of the episode opened at s, closing index excluded
\* when the episode closes
EpisodeDepth(v, s) ==
    LET last == IF ClosesAt(v, s) = Len(v) /\ ~BelowHalfPercent(v, Len(v))
                THEN Len(v) ELSE ClosesAt(v, s) - 1
        deepest == CHOOSE j \in s..last : \A k \in s..last : v[k] >= v[j]
    IN DrawdownAt(v, deepest)

\* C13: every episode that opens (drawdown above 2 % with no episode open)
\* is in the recorded set with its start and its end (the first later index
\* with a drawdown below 0.5 %, a new peak included, or the last index), and
\* the count of significant episodes counts every opened episode deeper
\* than 5 %.
C13_EveryOpenedEpisodeRecorded ==
    Applied("calculate_detailed_drawdown_metrics") /\ Len(args.values) >= 5 =>
        LET v == args.values
            opened == {s \in 1..Len(v) : OpensAt(v, s)}
            recorded == {result.drawdown_periods[k] :
                            k \in 1..Len(result.drawdown_periods)}
        IN /\ {<<p.start, p.end>> : p \in recorded}
                 = {<<s, ClosesAt(v, s)>> : s \in opened}
           /\ result.returned["significant_count"].v =
                 Cardinality({s \in opened :
                                 FracLess(Frac(5, 100), EpisodeDepth(v, s))})

\* the deepest drawdown of a positive series: its trough is the first index
\* that attains it, its peak the first index that holds the running peak there
Trough(v) ==
    CHOOSE t \in 1..Len(v) :
        /\ \A i \in 1..Len(v) : ~FracLess(DrawdownAt(v, t), DrawdownAt(v, i))
        /\ \A i \in 1..(t - 1) : FracLess(DrawdownAt(v, i), DrawdownAt(v, t))
PeakValue(v) == RunningPeak(v, Trough(v))
Recoveries(v) == {i \in (Trough(v) + 1)..Len(v) : v[i] >= PeakValue(v)}

\* C14: for a series of at least 5 values with a positive max drawdown,
\* calculate_drawdown_metrics reports either the recovery date, which is the
\* date of the first index after the trough whose value is at least the peak
\* value, or the not-yet-recovered marker when there is no such index, never
\* both; the report of the series that loses 30 % in ten days and is back at
\* its peak on day 20 has max drawdown 30 % and recovery date day 20.
C14_RecoveryDateOrMarker ==
    /\ Applied("calculate_drawdown_metrics") /\ Len(args.values) >= 5
          /\ FracPos(DrawdownAt(args.values, Trough(args.values)))
          => LET v == args.values
             IN IF Recoveries(v) # {}
                THEN /\ "recovery" \notin DOMAIN result
                     /\ "recovery_date" \in DOMAIN result
                     /\ \E i \in Recoveries(v) :
                           /\ \A j \in Recoveries(v) : i <= j
                           /\ result["recovery_date"] = DateVal(args.dates[i])
                ELSE /\ "recovery_date" \notin DOMAIN result
                     /\ "recovery" \in DOMAIN result
                     /\ IsMarker(result["recovery"])
    /\ Applied("calculate_indicators")
          /\ args.frame = PureFrame(Scenario3Series, {"A"})
          => /\ result.raised = "none"
             /\ result.indicators["max_drawdown"] = Pct(3000)
             /\ result.indicators["recovery_date"] = DateVal(20)

\* a series that falls, stays below its peak for a day and then recovers
C14_Witness ==
    /\ Applied("calculate_drawdown_metrics")
    /\ Len(args.values) >= 5
    /\ \E i \in Recoveries(args.values) :
          /\ i > Trough(args.values) + 1
          /\ \A j \in Recoveries(args.values) : i <= j
          /\ result["recovery_date"] = DateVal(args.dates[i])

(***************************************************************************)
(* The range of the price request.                                         *)
(***************************************************************************)
\* the last close at or before day d of a series, 0 when there is none
LastCloseUpTo(stock_df, d) ==
    LET upto == SelectSeq(stock_df, LAMBDA r : r.Date <= d)
    IN IF upto = <<>> THEN 0 ELSE upto[Len(upto)].Close

\* C15: calculate_portfolio_value holds, for every symbol, the price series
\* of the range that starts five days before start_date, and every cell is
\* the held quantity times the last close at or before the row's date in
\* that series (so a position held on a weekend start date is not worth 0).
C15_LookbackBeforeStartDate ==
    Succeeded =>
        \A s \in DOMAIN stock_data :
            LET lookback == get_stock_data(market[s], start_date, end_date)
            IN /\ stock_data[s] = lookback
               /\ \A i \in Rows :
                     LET d == ToDatetime(portfolio_value[i].Date)
                         held == {k \in 1..Len(transactions) :
                                     /\ transactions[k].symbol = s
                                     /\ transactions[k].buy_date <= d}
                     IN portfolio_value[i].value[s] =
                           SumOver([k \in held |->
                                       transactions[k].quantity * LastCloseUpTo(lookback, d)],
                                   held)

(***************************************************************************)
(* The daily-return array.                                                 *)
(***************************************************************************)
\* the indices whose value is positive and has a successor
ValidIndices(V) == {i \in 1..(Len(V) - 1) : V[i] > 0}
\* the k-th of them, in increasing order
KthValid(V, k) ==
    CHOOSE i \in ValidIndices(V) : Cardinality({j \in ValidIndices(V) : j <= i}) = k

\* C16: the daily-return array of a frame of at least two rows has one entry
\* per index whose value is positive and has a successor, in index order,
\* equal to (next - value) / value; an index whose value is 0 yields no
\* entry, so the length is the number of positive values before the last.
C16_ReturnsOverPositiveValues ==
    Applied("calculate_indicators") /\ Len(args.frame) >= 2 =>
        LET V == TotalValues(args.frame)
            r == result.daily_returns
        IN /\ Len(r) = Cardinality(ValidIndices(V))
           /\ \A k \in 1..Len(r) :
                 LET i == KthValid(V, k)
                 IN r[k].n = V[i + 1] - V[i] /\ r[k].d = V[i]

\* a series with a 0 between two positive values: the day after the 0 has
\* no return
C16_Witness ==
    /\ Applied("calculate_indicators")
    /\ Len(args.frame) = 4
    /\ \E i \in 2..3 : args.frame[i].TotalValue = 0
    /\ args.frame[1].TotalValue > 0
    /\ Len(result.daily_returns) = 2

(***************************************************************************)
(* Annualized return.                                                      *)
(***************************************************************************)
SpanDays == ToDatetime(args.frame[Len(args.frame)].Date) - ToDatetime(args.frame[1].Date)

\* C17: in the report of a frame that spans more than 0 days the annualized
\* return is the compound one exactly when the final value exceeds the
\* initial investment, and otherwise, a final value of 0 included, the simple
\* pro-rated (final - initial) / initial * 365 / days.
C17_AnnualizedReturnFormula ==
    ReportApplied /\ SpanDays > 0 =>
        LET initial == InitialInvestment(args.txs)
            final == LastTotal
            entry == result.indicators["annualized_return"]
        IN IF final > initial
           THEN /\ ~IsMarker(entry)
                /\ entry.formula = "compound"
                /\ entry.ratio = Frac(final, initial)
                /\ entry.years = Frac(SpanDays, 365)
           ELSE /\ ~IsMarker(entry)
                /\ entry.formula = "simple"
                /\ entry.v = PctHundredths((final - initial) * 365, initial * SpanDays)

(***************************************************************************)
(* Rolling-window analysis.                                                *)
(***************************************************************************)
RollingAnalysisName(w) == "rolling_" \o ToString(w) \o "_analysis"

\* C18: for each window w of 20 and 60, a returned report holds under the
\* window's analysis name the trailing return, volatility and win rate
\* (positive returns among the last w, over w) when there are at least w
\* returns, and an insufficient-data entry when there are fewer.
C18_RollingAnalysisPerWindow ==
    ReportReturned =>
        \A w \in {20, 60} :
            /\ RollingAnalysisName(w) \in DOMAIN indicators
            /\ LET e == indicators[RollingAnalysisName(w)].entries
               IN IF Len(Returns) >= w
                  THEN /\ {RollingKey(w, "return"), RollingKey(w, "volatility"),
                           RollingKey(w, "win_rate")} \subseteq DOMAIN e
                       /\ e[RollingKey(w, "win_rate")] =
                             Pct(PctHundredths(
                                     Cardinality({i \in (Len(Returns) - w + 1)..Len(Returns) :
                                                     Returns[i].n > 0}), w))
                  ELSE /\ DOMAIN e = {RollingKey(w, "analysis")}
                       /\ IsMarker(e[RollingKey(w, "analysis")])

(***************************************************************************)
(* The Gini coefficient.                                                   *)
(***************************************************************************)
PositiveSum(w) == \E i \in 1..Len(w) : w[i] > 0
EqualWeights(w) == \A i, j \in 1..Len(w) : w[i] = w[j]
\* all the weight is in one entry
Concentrated(w) == Cardinality({i \in 1..Len(w) : w[i] > 0}) = 1

\* C19: for at least two non-negative weights with a positive sum, the
\* result of calculate_gini_coefficient lies in [0, 1], is 0 for equal
\* weights, and for a list with all the weight in one entry is at least the
\* result of every list of the same length.
C19_GiniBetweenZeroAndOne ==
    Applied("calculate_gini_coefficient")
    /\ Len(args.weights) >= 2 /\ PositiveSum(args.weights) =>
        /\ result.n >= 0
        /\ result.n <= result.d
        /\ EqualWeights(args.weights) => result.n = 0
        /\ Concentrated(args.weights) =>
              \A u \in WeightLists :
                  Len(u) = Len(args.weights) /\ PositiveSum(u)
                      => ~FracLess(result, calculate_gini_coefficient(u))

(***************************************************************************)
(* Winning and losing streaks.                                             *)
(***************************************************************************)
\* the maximal runs of days of one sign, as pairs <<first day, last day>>
MaximalRuns(r, Sign(_)) ==
    {run \in (1..Len(r)) \X (1..Len(r)) :
        /\ run[1] <= run[2]
        /\ \A i \in run[1]..run[2] : Sign(r[i])
        /\ run[1] = 1 \/ ~Sign(r[run[1] - 1])
        /\ run[2] = Len(r) \/ ~Sign(r[run[2] + 1])}

\* the k-th run from the left
KthRun(runs, k) ==
    CHOOSE run \in runs : Cardinality({other \in runs : other[1] < run[1]}) = k - 1

\* what the spec says the scan records for the days of one sign
RunsRecorded(r, Sign(_), streaks, metrics) ==
    LET runs == MaximalRuns(r, Sign)
    IN /\ Len(streaks) = Cardinality(runs)
       /\ \A k \in 1..Len(streaks) :
              streaks[k] = KthRun(runs, k)[2] - KthRun(runs, k)[1] + 1
       /\ SumSeq(streaks) = Cardinality({i \in 1..Len(r) : Sign(r[i])})
       /\ \A k \in 1..Len(streaks) : streaks[k] <= metrics.max_streak
       /\ runs # {} => /\ \E k \in 1..Len(streaks) : streaks[k] = metrics.max_streak
                       /\ metrics.avg_streak.n = SumSeq(streaks)
                       /\ metrics.avg_streak.d = Cardinality(runs)
       /\ runs = {} => metrics.max_streak = 0 /\ metrics.avg_streak.n = 0
       /\ \A i \in 1..Len(r) : r[i].n = 0 => \A run \in runs : i \notin run[1]..run[2]

\* C20: the runs calculate_streak_metrics records are exactly the maximal
\* runs of consecutive true elements, in order; their lengths sum to the
\* number of true elements; max_streak is the longest run and avg_streak the
\* mean run length, both 0 when no element is true; a zero-return day is in
\* no winning run and in no losing run.
C20_StreaksAreMaximalRuns ==
    Applied("calculate_streak_metrics") =>
        /\ RunsRecorded(args.daily_returns, FracPos, result.win_streaks,
                        result.win_streak)
        /\ RunsRecorded(args.daily_returns, FracNeg, result.loss_streaks,
                        result.loss_streak)

\* gain, gain, flat, gain, loss: the flat day closes the first winning run
C20_Witness ==
    /\ Applied("calculate_streak_metrics")
    /\ Len(args.daily_returns) = 5
    /\ args.daily_returns[3].n = 0
    /\ result.win_streaks = <<2, 1>>
    /\ result.loss_streaks = <<1>>
    /\ result.win_streak.max_streak = 2

(***************************************************************************)
(* Total return.                                                           *)
(***************************************************************************)
\* sum of quantity * buy_price over the transactions of the call
Paid == SumOver([k \in 1..Len(args.txs) |-> args.txs[k].quantity * args.txs[k].buy_price],
                1..Len(args.txs))
FlooredPaid == IF Paid <= 0 THEN 1 ELSE Paid
FlooredFinal == IF LastTotal < 0 THEN 0 ELSE LastTotal

\* C21: every report of calculate_indicators carries a total return that is a
\* number: (final_value - initial_investment) / initial_investment, where
\* initial_investment is the sum of quantity * buy_price, replaced by 1 when
\* that sum is <= 0, and final_value is the last TotalValue, 0 when negative.
C21_TotalReturnOverFlooredInvestment ==
    ReportApplied =>
        /\ FlooredPaid > 0
        /\ "total_return" \in DOMAIN result.indicators
        /\ result.indicators["total_return"].kind = "pct"
        /\ result.indicators["total_return"].v =
               PctHundredths(FlooredFinal - FlooredPaid, FlooredPaid)

\* a short position bought for a negative sum: both floors apply, and the
\* total return is (0 - 1) / 1 = -100.00 %
C21_Witness ==
    /\ ReportApplied
    /\ Paid < 0
    /\ LastTotal < 0
    /\ result.indicators["total_return"] = Pct(-10000)

(***************************************************************************)
(* The recorded drawdown episodes.                                         *)
(***************************************************************************)
\* the recorded episodes are in increasing start order and pairwise disjoint,
\* each has start <= end, and its depth is over 2 % and is the deepest
\* drawdown of its indices from the running peak, which is the same at every
\* index of the episode
EpisodesOrderedAndDeep(v, periods) ==
    /\ \A k \in 1..Len(periods) : periods[k].start <= periods[k].end
    /\ \A k \in 1..(Len(periods) - 1) : periods[k].end < periods[k + 1].start
    /\ \A k \in 1..Len(periods) :
          LET span == periods[k].start..periods[k].end
          IN /\ \A j \in span : RunningPeak(v, j) = RunningPeak(v, periods[k].start)
             /\ RunningPeak(v, periods[k].start) > 0
             /\ FracLess(Frac(2, 100), periods[k].depth)
             /\ \A j \in span : ~FracLess(periods[k].depth, DrawdownAt(v, j))
             /\ \E j \in span : FracEq(periods[k].depth, DrawdownAt(v, j))

DepthAtMostOne(period) == ~FracLess(Frac(1, 1), period.depth)

\* C22 as stated: after any value series the recorded episodes are ordered,
\* disjoint, have start <= end, and a depth over 2 % and at most 1 against
\* the running peak that held throughout the episode.
C22_EpisodesOrderedDisjointDepthInRange ==
    Applied("calculate_detailed_drawdown_metrics") =>
        /\ EpisodesOrderedAndDeep(args.values, result.drawdown_periods)
        /\ \A k \in 1..Len(result.drawdown_periods) :
              DepthAtMostOne(result.drawdown_periods[k])

\* C22: the recorded episodes are ordered, disjoint, have start <= end and a
\* depth over 2 % against the running peak that held throughout the episode;
\* the depth is at most 1 when no value of the episode is negative.
C22_EpisodesOrderedDisjointDepthOverTwoPercent ==
    Applied("calculate_detailed_drawdown_metrics") =>
        /\ EpisodesOrderedAndDeep(args.values, result.drawdown_periods)
        /\ \A k \in 1..Len(result.drawdown_periods) :
              (\A j \in result.drawdown_periods[k].start..result.drawdown_periods[k].end :
                   args.values[j] >= 0)
                  => DepthAtMostOne(result.drawdown_periods[k])

\* two episodes of a non-negative series, the first closed by a recovery to
\* within 0.5 % of the peak
C22_Witness ==
    /\ Applied("calculate_detailed_drawdown_metrics")
    /\ \A j \in 1..Len(args.values) : args.values[j] >= 0
    /\ Len(result.drawdown_periods) = 2
    /\ result.drawdown_periods[1].end < Len(args.values)

(***************************************************************************)
(* The three drawdown analyzers on one series.                             *)
(***************************************************************************)
NonNegative(v) == \A i \in 1..Len(v) : v[i] >= 0
\* some value lies below an earlier positive value
HasDrawdown(v) == \E i, j \in 1..Len(v) : i < j /\ v[i] > 0 /\ v[j] < v[i]
IndexOfDate(dates, entry) == CHOOSE i \in 1..Len(dates) : dates[i] = entry.v

\* C23: for a series of non-negative values with a positive max drawdown,
\* the start s and end e that calculate_drawdown_metrics reports satisfy
\* s < e, V[s] is the running peak at e, and (V[s] - V[e]) / V[s] equals the
\* value calculate_max_drawdown returns, which equals the largest pointwise
\* drawdown of calculate_detailed_drawdown_metrics and lies in [0, 1].
C23_DrawdownAnalyzersAgree ==
    Applied("calculate_max_drawdown") /\ Len(args.values) >= MinScan
    /\ NonNegative(args.values) /\ HasDrawdown(args.values) =>
        LET v == args.values
            dates == ScanDates(v)
            report == calculate_drawdown_metrics(v, dates)
            s == IndexOfDate(dates, report["max_dd_start_date"])
            e == IndexOfDate(dates, report["max_dd_end_date"])
            pointwise == DrawdownPeriods(v).drawdowns
        IN /\ "max_dd_start_date" \in DOMAIN report
           /\ "max_dd_end_date" \in DOMAIN report
           /\ s < e
           /\ v[s] > 0
           /\ v[s] = RunningPeak(v, e)
           /\ FracEq(Frac(v[s] - v[e], v[s]), result)
           /\ \A k \in 1..Len(pointwise) : ~FracLess(result, pointwise[k])
           /\ \E k \in 1..Len(pointwise) : FracEq(result, pointwise[k])
           /\ result.d > 0
           /\ result.n > 0
           /\ result.n <= result.d

\* a series that starts at 0, rises, and loses everything: max drawdown 1
C23_Witness ==
    /\ Applied("calculate_max_drawdown")
    /\ Len(args.values) >= MinScan
    /\ args.values[1] = 0
    /\ HasDrawdown(args.values)
    /\ result.n = result.d
    /\ "max_dd_end_date" \in DOMAIN calculate_drawdown_metrics(args.values,
                                                               ScanDates(args.values))

(***************************************************************************)
(* The two streak scanners.                                                *)
(***************************************************************************)
\* np.where(condition, 1, 0)
ZeroOne(b) == [i \in 1..Len(b) |-> IF b[i] THEN 1 ELSE 0]
ReportHasDetail == ReportApplied /\ "win_loss_detail" \in DOMAIN result.indicators

\* C24: for every daily-return sequence calculate_max_streak of the 0/1
\* indicator of positive (negative) returns equals the max_streak of
\* calculate_streak_metrics of returns > 0 (returns < 0); a report with more
\* than 10 returns carries the win/loss detail, and its longest winning and
\* losing streaks equal the top-level max up and max down streak entries.
C24_StreakScannersAgree ==
    /\ Applied("calculate_streak_metrics") =>
          /\ calculate_max_streak(ZeroOne(GreaterThanZero(args.daily_returns)))
                = result.win_streak.max_streak
          /\ calculate_max_streak(ZeroOne(LessThanZero(args.daily_returns)))
                = result.loss_streak.max_streak
    /\ ReportApplied /\ Len(result.daily_returns) > 10 => ReportHasDetail
    /\ ReportHasDetail =>
          LET detail == result.indicators["win_loss_detail"].entries
          IN /\ result.indicators["max_up_streak"].kind = "days"
             /\ detail["max_win_streak"] = result.indicators["max_up_streak"]
             /\ detail["max_loss_streak"] = result.indicators["max_down_streak"]

\* a report whose returns repeat gain, gain, loss: streaks of 2 and of 1
C24_Witness ==
    /\ ReportHasDetail
    /\ result.indicators["max_up_streak"] = Days(2)
    /\ result.indicators["win_loss_detail"].entries["max_win_streak"] = Days(2)
    /\ result.indicators["win_loss_detail"].entries["max_loss_streak"] = Days(1)

====
